---- MODULE Spec2Model ----
(***************************************************************************)
(* A model of the Position-Responsive 3D Soundscape System.                *)
(*                                                                         *)
(*   Spec      main.py: the main task, the control-timer thread and the    *)
(*             audio callback sharing current_pos / current_quat, with the *)
(*             audio engine and the DSP pipeline the callback drives       *)
(*   SpecCtrl  stm32_controller_sim.py: STM32_Controller driven by a       *)
(*             client that calls start() and stop() in any order           *)
(*   SpecSource audio_engine.py: one AudioSource read chunk by chunk       *)
(*   SpecDSP   dsp_pipeline.py, eq_reverb.py, crosstalk.py, hrtf_engine.py: *)
(*             DSPPipeline.process called block after block                *)
(*   SpecBank  audio_engine.py: AudioEngine.get_source_chunks              *)
(*   SpecHrtf  hrtf_engine.py: one get_nearest_hrtf lookup                 *)
(*   SpecCtc   crosstalk.py: process(l, r) and process(r, l)               *)
(*                                                                         *)
(* Sample arithmetic is exact integer arithmetic on scaled values: every   *)
(* gain is a fraction whose denominator is named below, and a signal is    *)
(* kept as its numerator over the product of the denominators of the       *)
(* stages it went through.                                                 *)
(***************************************************************************)
EXTENDS Integers, Sequences, FiniteSets, TLC

\* ------------------------------------------------------------- bounds
MaxThreads == 2     \* timer threads ever created
MaxUpdates == 3     \* SensorFusion.update calls
MaxCalls   == 4     \* start()/stop() calls of the controller's client
MaxRenders == 2     \* audio callbacks of the stream
MaxSrcLen  == 4     \* samples of a source buffer
MaxChunk   == 3     \* chunk_size
MaxChunkCalls == 5  \* get_next_chunk calls on a source
MaxBlockLen == 2    \* chunk_size of the DSP pipeline
MaxRate    == 10    \* sample_rate of the DSP pipeline (buffer of sample_rate / 2)
MaxBlocks  == 2     \* blocks rendered by DSPPipeline.process
MaxAzUnits == 288   \* |azimuth| of a lookup, in units of 2.5 degrees (720 degrees)
MaxElUnits == 40    \* |elevation| of a lookup, in units of 2.5 degrees (100 degrees)
MaxCollects == 5    \* get_source_chunks calls on an engine
MaxCtcLen  == 2     \* block length of a crosstalk call
MaxCtcAmp  == 2     \* |sample| of a crosstalk input, in halves of full scale

\* The sample values of the model (0 is silence).
SampleVals == {0, 1, 2}

VARIABLES
    \* STM32_Controller
    running,          \* self.running
    timer_callback,   \* self.timer_callback is set (not None)
    threads,          \* the timer threads created so far: [pc, fused]
    lastCall,         \* the client's last completed call: "none", "start", "stop"
    nCalls,           \* how many client calls have completed
    cbAfterStop,      \* history: a callback was invoked after stop() returned
    \* SensorFusion and MudumalaiSystem
    fusionSeq,        \* number of fusion updates done (the fusion state)
    current_pos,      \* self.current_pos: the update that produced it
    current_quat,     \* self.current_quat: the update that produced it
    mainPc,           \* the main task's position in start() / stop()
    streamActive,     \* the output stream is started
    audioPc,          \* the audio callback's position
    argPos,           \* the audio callback's evaluated argument self.current_pos
    rendered,         \* the (pos, quat) pair the last block was rendered with
    nRenders,         \* blocks rendered
    stopOrder,        \* history: the order in which stop() stopped things
    \* AudioEngine and its AudioSources
    chunk_size,       \* AudioEngine.chunk_size
    sources,          \* AudioEngine.sources: [audio_data, ptr] each
    chunks,           \* history: the chunks get_next_chunk returned, in order
    ptrBefore,        \* history: the cursor before the last get_next_chunk
    \* DSPPipeline and its EnvironmentDSP
    reverb_buffer,    \* EnvironmentDSP.reverb_buffer
    env_ptr,          \* EnvironmentDSP.ptr
    final_l,          \* the left output of the last process call: [num, den]
    final_r,          \* the right output of the last process call: [num, den]
    nBlocks,          \* process calls so far
    bufOwner,         \* history: the channel whose samples each buffer cell holds
    readOwners,       \* history: the owners of the cells each channel's reverb read
    ptrTrace,         \* history: the cursor before, within and after the last block
    allSilent,        \* history: every source chunk so far was all zeros
    \* AudioEngine.get_source_chunks
    active_idx,       \* AudioEngine.active_idx
    samples_played,   \* AudioEngine.samples_played
    collected,        \* the dict the last call returned: <<[name, chunk, pos], ...>>
    srcBefore,        \* history: the sources before the last call
    prevNames,        \* history: the names the call before the last returned
    nCollects,        \* get_source_chunks calls so far
    \* HRTF_Engine.get_nearest_hrtf and CrosstalkCanceller.process, called alone
    hrtf_req,         \* the requested direction: [az, el] in input units
    hrtf_hit,         \* what the lookup computed for it: <<>> before it, <<hit>> after
    ctc_in,           \* the input blocks of a process call: [l, r]
    ctc_out           \* <<>> before the call, then <<process(l, r), process(r, l)>>

ctrlVars == <<running, timer_callback, threads, lastCall, nCalls, cbAfterStop>>
sysVars  == <<fusionSeq, current_pos, current_quat, mainPc, streamActive,
              audioPc, argPos, rendered, nRenders, stopOrder>>
srcVars  == <<chunk_size, sources, chunks, ptrBefore>>
dspVars  == <<reverb_buffer, env_ptr, final_l, final_r, nBlocks,
              bufOwner, readOwners, ptrTrace, allSilent>>
pureVars == <<hrtf_req, hrtf_hit, ctc_in, ctc_out>>
bankVars == <<active_idx, samples_played, collected, srcBefore, prevNames, nCollects>>
audioVars == <<srcVars, dspVars, pureVars, bankVars>>
vars == <<ctrlVars, sysVars, audioVars>>

\* --------------------------------------------------- STM32_Controller

\* A fresh timer thread, created and started by start().
NewThread == [pc |-> "init", fused |-> 0]

\* STM32_Controller.start: registers the callbacks, sets running and
\* creates and starts a new timer thread, whatever the state was.
ControllerStart ==
    /\ Len(threads) < MaxThreads
    /\ timer_callback' = TRUE
    /\ running' = TRUE
    /\ threads' = Append(threads, NewThread)

\* STM32_Controller.stop: clears running; the thread is not joined.
ControllerStop ==
    /\ running' = FALSE
    /\ UNCHANGED <<timer_callback, threads>>

\* The timer loops that have not left their while loop.
LiveLoops == {t \in 1..Len(threads) : threads[t].pc # "done"}

SetPc(t, pc) == threads' = [threads EXCEPT ![t].pc = pc]

\* _timer_loop, before the loop: last_timer_time is taken.
TimerInit(t) ==
    /\ threads[t].pc = "init"
    /\ SetPc(t, "while")
    /\ UNCHANGED <<running, timer_callback, lastCall, nCalls, cbAfterStop, sysVars>>
    /\ UNCHANGED audioVars

\* _timer_loop: the test of `while self.running`.
TimerWhile(t) ==
    /\ threads[t].pc = "while"
    /\ SetPc(t, IF running THEN "elapsed" ELSE "done")
    /\ UNCHANGED <<running, timer_callback, lastCall, nCalls, cbAfterStop, sysVars>>
    /\ UNCHANGED audioVars

\* _timer_loop: `if elapsed >= target_period`; the clock is free.
TimerElapsed(t) ==
    /\ threads[t].pc = "elapsed"
    /\ \E due \in BOOLEAN : SetPc(t, IF due THEN "fire" ELSE "sleep")
    /\ UNCHANGED <<running, timer_callback, lastCall, nCalls, cbAfterStop, sysVars>>
    /\ UNCHANGED audioVars

\* _timer_loop: `if self.timer_callback: self.timer_callback()`, the call.
TimerFire(t) ==
    /\ threads[t].pc = "fire"
    /\ SetPc(t, IF timer_callback THEN "cb_fusion" ELSE "sleep")
    /\ cbAfterStop' = (cbAfterStop \/ (timer_callback /\ lastCall = "stop"))
    /\ UNCHANGED <<running, timer_callback, lastCall, nCalls, sysVars>>
    /\ UNCHANGED audioVars

\* _timer_loop: time.sleep(0.001), then back to the loop test.
TimerSleep(t) ==
    /\ threads[t].pc = "sleep"
    /\ SetPc(t, "while")
    /\ UNCHANGED <<running, timer_callback, lastCall, nCalls, cbAfterStop, sysVars>>
    /\ UNCHANGED audioVars

\* ------------------------------------- MudumalaiSystem, control task

\* SensorFusion.update: one update produces a position and an orientation
\* together; both carry the number of the update that produced them.
FusionUpdate(n) == [pos |-> n + 1, quat |-> n + 1]

\* _timer_interrupt_100hz, `fused = self.fusion.update(raw_data)`.
CbFusion(t) ==
    /\ threads[t].pc = "cb_fusion"
    /\ fusionSeq < MaxUpdates
    /\ fusionSeq' = fusionSeq + 1
    /\ threads' = [threads EXCEPT ![t] = [pc |-> "cb_pos", fused |-> FusionUpdate(fusionSeq).pos]]
    /\ UNCHANGED <<running, timer_callback, lastCall, nCalls, cbAfterStop>>
    /\ UNCHANGED <<current_pos, current_quat, mainPc, streamActive, audioPc,
                   argPos, rendered, nRenders, stopOrder>>
    /\ UNCHANGED audioVars

\* _timer_interrupt_100hz, `self.current_pos = fused['pos']`.
CbWritePos(t) ==
    /\ threads[t].pc = "cb_pos"
    /\ current_pos' = threads[t].fused
    /\ SetPc(t, "cb_quat")
    /\ UNCHANGED <<running, timer_callback, lastCall, nCalls, cbAfterStop>>
    /\ UNCHANGED <<fusionSeq, current_quat, mainPc, streamActive, audioPc,
                   argPos, rendered, nRenders, stopOrder>>
    /\ UNCHANGED audioVars

\* A mutant of CbWriteQuat: the callback also rewinds every source.
CbWriteQuatRewinds(t) ==
    /\ threads[t].pc = "cb_quat"
    /\ current_quat' = threads[t].fused
    /\ SetPc(t, "sleep")
    /\ sources' = [i \in 1..Len(sources) |-> [sources[i] EXCEPT !.ptr = 0]]
    /\ UNCHANGED <<running, timer_callback, lastCall, nCalls, cbAfterStop>>
    /\ UNCHANGED <<fusionSeq, current_pos, mainPc, streamActive, audioPc,
                   argPos, rendered, nRenders, stopOrder>>
    /\ UNCHANGED <<chunk_size, chunks, ptrBefore, dspVars, pureVars, bankVars>>

\* _timer_interrupt_100hz, `self.current_quat = fused['quat']`; the callback
\* returns into the loop's sleep.
CbWriteQuat(t) ==
    /\ threads[t].pc = "cb_quat"
    /\ current_quat' = threads[t].fused
    /\ SetPc(t, "sleep")
    /\ UNCHANGED <<running, timer_callback, lastCall, nCalls, cbAfterStop>>
    /\ UNCHANGED <<fusionSeq, current_pos, mainPc, streamActive, audioPc,
                   argPos, rendered, nRenders, stopOrder>>
    /\ UNCHANGED audioVars

TimerStep ==
    \E t \in 1..Len(threads) :
        \/ TimerInit(t)
        \/ TimerWhile(t)
        \/ TimerElapsed(t)
        \/ TimerFire(t)
        \/ TimerSleep(t)
        \/ CbFusion(t)
        \/ CbWritePos(t)
        \/ CbWriteQuat(t)

\* ---------------------------------------- MudumalaiSystem, main task

\* MudumalaiSystem.start, `self.controller.start(self._timer_interrupt_100hz, None)`.
MainStartController ==
    /\ mainPc = "boot"
    /\ ControllerStart
    /\ lastCall' = "start"
    /\ nCalls' = nCalls + 1
    /\ mainPc' = "controller_started"
    /\ UNCHANGED <<cbAfterStop, fusionSeq, current_pos, current_quat, streamActive,
                   audioPc, argPos, rendered, nRenders, stopOrder>>
    /\ UNCHANGED audioVars

\* MudumalaiSystem.start, `self.stream.start()`, then the wait loop.
MainStartStream ==
    /\ mainPc = "controller_started"
    /\ streamActive' = TRUE
    /\ mainPc' = "running"
    /\ UNCHANGED <<ctrlVars, fusionSeq, current_pos, current_quat,
                   audioPc, argPos, rendered, nRenders, stopOrder>>
    /\ UNCHANGED audioVars

\* MudumalaiSystem.stop, `self.stream.stop()`: returns once no callback runs.
MainStopStream ==
    /\ mainPc = "running"
    /\ audioPc = "idle"
    /\ streamActive' = FALSE
    /\ stopOrder' = Append(stopOrder, "stream")
    /\ mainPc' = "stream_stopped"
    /\ UNCHANGED <<ctrlVars, fusionSeq, current_pos, current_quat,
                   audioPc, argPos, rendered, nRenders>>
    /\ UNCHANGED audioVars

\* MudumalaiSystem.stop, `self.controller.stop()`.
MainStopController ==
    /\ mainPc = "stream_stopped"
    /\ ControllerStop
    /\ lastCall' = "stop"
    /\ nCalls' = nCalls + 1
    /\ stopOrder' = Append(stopOrder, "timer")
    /\ mainPc' = "stopped"
    /\ UNCHANGED <<cbAfterStop, fusionSeq, current_pos, current_quat, streamActive,
                   audioPc, argPos, rendered, nRenders>>
    /\ UNCHANGED audioVars

\* MudumalaiSystem.__init__ and STM32_Controller.__init__.
InitCtrlSys ==
    /\ running = FALSE
    /\ timer_callback = FALSE
    /\ threads = <<>>
    /\ lastCall = "none"
    /\ nCalls = 0
    /\ cbAfterStop = FALSE
    /\ fusionSeq = 0
    /\ current_pos = 0
    /\ current_quat = 0
    /\ mainPc = "boot"
    /\ streamActive = FALSE
    /\ audioPc = "idle"
    /\ argPos = 0
    /\ rendered = [pos |-> 0, quat |-> 0]
    /\ nRenders = 0
    /\ stopOrder = <<>>

\* A controller, a lookup or a canceller on its own has no audio engine: an
\* empty source list stands for it.
InitNoSources ==
    /\ chunk_size = 1
    /\ sources = <<>>
    /\ chunks = <<>>
    /\ ptrBefore = 0

\* Likewise no DSP pipeline: no block is rendered.
InitNoDsp ==
    /\ reverb_buffer = <<>>
    /\ env_ptr = 0
    /\ final_l = [num |-> <<>>, den |-> 1]
    /\ final_r = [num |-> <<>>, den |-> 1]
    /\ nBlocks = 0
    /\ bufOwner = <<>>
    /\ readOwners = [L |-> {}, R |-> {}]
    /\ ptrTrace = <<0, 0, 0>>
    /\ allSilent = TRUE

\* No lookup and no crosstalk call is made on their own.
InitNoPure ==
    /\ hrtf_req = [az |-> 0, el |-> 0]
    /\ hrtf_hit = <<>>
    /\ ctc_in = [l |-> <<>>, r |-> <<>>]
    /\ ctc_out = <<>>

\* AudioEngine.__init__: the first source is active, nothing was collected.
InitNoBank ==
    /\ active_idx = 0
    /\ samples_played = 0
    /\ collected = <<>>
    /\ srcBefore = <<>>
    /\ prevNames = <<>>
    /\ nCollects = 0

Init == InitCtrlSys /\ InitNoSources /\ InitNoDsp /\ InitNoPure /\ InitNoBank


\* ------------------------------- STM32_Controller under any client

\* A client's call of start(timer_cb, audio_cb).
ClientStart ==
    /\ nCalls < MaxCalls
    /\ ControllerStart
    /\ lastCall' = "start"
    /\ nCalls' = nCalls + 1
    /\ UNCHANGED <<cbAfterStop, sysVars>>
    /\ UNCHANGED audioVars

\* A client's call of stop().
ClientStop ==
    /\ nCalls < MaxCalls
    /\ ControllerStop
    /\ lastCall' = "stop"
    /\ nCalls' = nCalls + 1
    /\ UNCHANGED <<cbAfterStop, sysVars>>
    /\ UNCHANGED audioVars

NextCtrl ==
    \/ ClientStart
    \/ ClientStop
    \/ TimerStep

SpecCtrl == Init /\ [][NextCtrl]_vars

\* -------------------------------------------------------- AudioSource

Min(a, b) == IF a < b THEN a ELSE b

\* n zeros.
Zeros(n) == [i \in 1..n |-> 0]

\* Python's s[a : b] for 0 <= a <= b: the elements with 0-based index in
\* [a, b) that exist.
PySlice(s, a, b) == SubSeq(s, a + 1, Min(b, Len(s)))

\* np.pad(chunk, (0, n - len(chunk))) when the chunk is shorter than n.
PadTo(chunk, n) == IF Len(chunk) < n THEN chunk \o Zeros(n - Len(chunk)) ELSE chunk

\* A mutant of NextPtr: the cursor is reset only once it is past the end.
NextPtrResetPastEnd(p, n, N) == IF p + n > N THEN 0 ELSE p + n

\* get_next_chunk's cursor update: `self.ptr += chunk_size`, then
\* `if self.ptr + chunk_size >= len(self.audio_data): self.ptr = 0`.
NextPtr(p, n, N) == IF (p + n) + n >= N THEN 0 ELSE p + n

\* AudioSource.get_next_chunk(chunk_size) on a source: what it returns and
\* the source it leaves.
GetNextChunk(src, n) ==
    [chunk |-> PadTo(PySlice(src.audio_data, src.ptr, src.ptr + n), n),
     src   |-> [src EXCEPT !.ptr = NextPtr(src.ptr, n, Len(src.audio_data))]]

\* The source buffers of the model: 1 to MaxSrcLen samples.
SourceBuffers == UNION {[1..len -> SampleVals] : len \in 1..MaxSrcLen}

\* AudioSource.__init__: the decoded samples, the cursor at 0.
NewSource(data) == [audio_data |-> data, ptr |-> 0]

\* One source with any buffer, read with any chunk size.
InitSource ==
    /\ InitCtrlSys
    /\ chunk_size \in 1..MaxChunk
    /\ \E data \in SourceBuffers : sources = <<NewSource(data)>>
    /\ chunks = <<>>
    /\ ptrBefore = 0
    /\ InitNoDsp
    /\ InitNoPure
    /\ InitNoBank

\* A call of sources[i].get_next_chunk(chunk_size).
NextChunkCall(i) ==
    /\ Len(chunks) < MaxChunkCalls
    /\ LET r == GetNextChunk(sources[i], chunk_size) IN
        /\ sources' = [sources EXCEPT ![i] = r.src]
        /\ chunks' = Append(chunks, r.chunk)
        /\ ptrBefore' = sources[i].ptr
    /\ UNCHANGED <<chunk_size, ctrlVars, sysVars, dspVars, pureVars, bankVars>>

NextSource == \E i \in 1..Len(sources) : NextChunkCall(i)

SpecSource == InitSource /\ [][NextSource]_vars

\* -------------------------------------------------------- HRTF_Engine

\* The denominator of the filter taps: a tap t stands for t / TapDen.
TapDen == 2

\* base_idx of the impulse responses (100 of filter_length = 1024 taps),
\* reduced to the first tap of the model's block-long filters.
BaseIdx == 0

\* |itd_samples| of a direction off the midline (63 at 90 degrees and
\* 96 kHz), reduced so that itd_samples // 2 is one tap.
ItdSide == 2

\* The grid azimuths the model renders from: ahead, right and left (the
\* filters of 180 are those of 0: both have itd_samples = 0).
Azimuths == {0, 90, 270}

\* _generate_synthetic_hrtf, itd_samples: 0 on the midline (theta = 0),
\* positive for 0 < azimuth < 180, negated for azimuth > 180.
ItdSamples(az) ==
    IF az % 180 = 0 THEN 0 ELSE IF az > 180 THEN -ItdSide ELSE ItdSide

\* 1000 * cos(az) of a grid azimuth (a multiple of 15 degrees), rounded.
CosFirstQuadrant == <<1000, 966, 866, 707, 500, 259, 0>>
Cos1000(az) ==
    LET a == IF az > 180 THEN 360 - az ELSE az
    IN  IF a <= 90 THEN CosFirstQuadrant[a \div 15 + 1]
        ELSE -CosFirstQuadrant[(180 - a) \div 15 + 1]

\* _generate_synthetic_hrtf, ild_factor = 0.5 + 0.5 * cos(azimuth), in taps
\* (rounded down to a whole tap).
IldFactor(az) == (TapDen * (1000 + Cos1000(az))) \div 2000

\* _generate_synthetic_hrtf, the impulse responses ir_l and ir_r of one
\* azimuth, their first len taps (1-based).  The damped sinusoid added to
\* both (at most 0.05) is below the tap resolution.
ImpulseResponses(az, len) ==
    LET itd == ItdSamples(az)
        idx_l == BaseIdx + (IF itd > 0 THEN itd \div 2 ELSE 0)
        idx_r == BaseIdx + (IF itd < 0 THEN (-itd) \div 2 ELSE 0)
        amp_l == IF itd >= 0 THEN TapDen ELSE IldFactor(az)
        amp_r == IF itd <= 0 THEN TapDen ELSE IldFactor(az)
    IN  [l |-> [t \in 1..len |-> IF t - 1 = idx_l THEN amp_l ELSE 0],
         r |-> [t \in 1..len |-> IF t - 1 = idx_r THEN amp_r ELSE 0]]

RECURSIVE ConvSum(_, _, _, _)
ConvSum(x, h, i, k) ==
    IF k = 0 THEN 0 ELSE x[k] * h[i - k + 1] + ConvSum(x, h, i, k - 1)

\* ifft(fft(x, 2n) * fft(h, 2n))[:n]: the first n samples of the convolution.
Convolve(x, h) == [i \in 1..Len(x) |-> ConvSum(x, h, i, i)]

\* HRTF_Engine.spatialize_source with the filters of grid azimuth az (the
\* filters of a grid point do not depend on its elevation).
SpatializeSource(audio_chunk, az) ==
    LET ir == ImpulseResponses(az, Len(audio_chunk))
    IN  [l |-> Convolve(audio_chunk, ir.l), r |-> Convolve(audio_chunk, ir.r)]

\* num_azimuth and num_elevation: the database has 24 x 12 directions.
NumAzimuth == 24
NumElevation == 12

\* The grid step in degrees: azimuth = az * 15, elevation = el * 15 - 90.
GridDeg == 15

\* The keys of hrtf_db: db[elevation][azimuth].
DbElevations == {el * GridDeg - 90 : el \in 0..(NumElevation - 1)}
DbAzimuths == {az * GridDeg : az \in 0..(NumAzimuth - 1)}

\* Requested directions are given in units of 2.5 degrees: a grid step of 15
\* degrees is StepUnits units, so the ties of round(x / 15.0) (7.5, 22.5, ...)
\* are directions of the model.
StepUnits == 6
UnitsOf(deg) == (deg \div GridDeg) * StepUnits

Max(a, b) == IF a > b THEN a ELSE b

\* Python's round(num / den) for den > 0: to the nearest integer, a tie to
\* the even one.
PyRound(num, den) ==
    LET q == num \div den
        r == num % den
    IN  IF 2 * r < den THEN q
        ELSE IF 2 * r > den THEN q + 1
        ELSE IF q % 2 = 0 THEN q ELSE q + 1

\* A mutant of GetNearestHrtf: az_idx is not wrapped modulo 24.
GetNearestHrtfNoWrap(az, el) ==
    LET azimuth == az % UnitsOf(360)
        az_idx == PyRound(azimuth, StepUnits)
        el_idx == Max(0, Min(11, PyRound(el + UnitsOf(90), StepUnits)))
        target_az == az_idx * 15
        target_el == el_idx * 15 - 90
    IN  [az_idx |-> az_idx, el_idx |-> el_idx,
         target_az |-> target_az, target_el |-> target_el,
         found |-> target_el \in DbElevations /\ target_az \in DbAzimuths]

\* HRTF_Engine.get_nearest_hrtf(azimuth, elevation): the indices and the key
\* it computes, and whether hrtf_db[target_el][target_az] exists.
GetNearestHrtf(az, el) ==
    LET azimuth == az % UnitsOf(360)
        az_idx == PyRound(azimuth, StepUnits) % 24
        el_idx == Max(0, Min(11, PyRound(el + UnitsOf(90), StepUnits)))
        target_az == az_idx * 15
        target_el == el_idx * 15 - 90
    IN  [az_idx |-> az_idx, el_idx |-> el_idx,
         target_az |-> target_az, target_el |-> target_el,
         found |-> target_el \in DbElevations /\ target_az \in DbAzimuths]

\* The taps of the model's impulse responses that can be nonzero.
HrtfTaps == BaseIdx + ItdSide \div 2 + 1

\* The peak of each channel of the filter pair of grid azimuth az.
FilterPeaks(az) ==
    LET ir == ImpulseResponses(az, HrtfTaps)
        peak(h) == CHOOSE m \in {h[t] : t \in 1..HrtfTaps} :
                      \A t \in 1..HrtfTaps : h[t] <= m
    IN  [l |-> peak(ir.l), r |-> peak(ir.r)]

\* DSPPipeline.process, azimuth = degrees(arctan2(local_pos[0], local_pos[1]))
\* of a source on one of the listener's axes (x to the right, y ahead).
SourceAzimuth(x, y) ==
    CASE x = 0 /\ y > 0 -> 0
      [] x > 0 /\ y = 0 -> 90
      [] x = 0 /\ y < 0 -> 180
      [] x < 0 /\ y = 0 -> -90

\* ----------------------------------------------------- EnvironmentDSP

\* low_gain, mid_gain, high_gain.
LowGain == 1
MidGain == 1
HighGain == 1

\* apply_eq: data * (low * 0.4 + mid * 0.4 + high * 0.2).
ApplyEq(data) ==
    [i \in 1..Len(data) |-> (data[i] * (LowGain * 4 + MidGain * 4 + HighGain * 2)) \div 10]

\* apply_doppler(audio_chunk, 0.0): factor = c / (c + 0) = 1, so
\* abs(factor - 1.0) < 0.001 and the chunk is returned as it is.
ApplyDoppler(audio_chunk) == audio_chunk

\* reverb_decay = 0.4 = ReverbDecayNum / ReverbDen.
ReverbDecayNum == 2
ReverbDen == 5

\* A mutant of ReverbNextPtr: the cursor wraps at the buffer length.
ReverbNextPtrModB(p, n, B) == (p + n) % B

\* apply_reverb's cursor update:
\* self.ptr = (self.ptr + len(data)) % (len(self.reverb_buffer) - len(data)).
ReverbNextPtr(p, n, B) == (p + n) % (B - n)

\* Cell j (1-based) is one of reverb_buffer[p : p + n].
InWindow(j, p, n, B) == p < j /\ j <= p + n /\ j <= B

\* EnvironmentDSP.apply_reverb(data) on buffer buf with cursor p: the output
\* (over ReverbDen), the buffer and the cursor it leaves.
ApplyReverb(data, buf, p) ==
    LET n == Len(data)
        B == Len(buf)
    IN  [out |-> [i \in 1..n |->
                    ReverbDen * data[i]
                    + ReverbDecayNum * (IF InWindow(p + i, p, n, B) THEN buf[p + i] ELSE 0)],
         buf |-> [j \in 1..B |-> IF InWindow(j, p, n, B) THEN data[j - p] ELSE buf[j]],
         ptr |-> ReverbNextPtr(p, n, B)]

\* ------------------------------------------------- CrosstalkCanceller

\* 1.1 = CtcDirect / CtcDen and alpha * 0.5 = 0.35 = CtcCross / CtcDen.
CtcDen == 20
CtcDirect == 22
CtcCross == 7

Abs(x) == IF x < 0 THEN -x ELSE x

\* np.max(np.abs([l_out, r_out])).
MaxAbs(l, r) ==
    LET S == {Abs(l[i]) : i \in 1..Len(l)} \cup {Abs(r[i]) : i \in 1..Len(r)} \cup {0}
    IN  CHOOSE m \in S : \A x \in S : x <= m

\* A mutant of CtcProcess: the blocks are divided by max_val whatever it is.
CtcProcessAlwaysNormalized(l_in, r_in, den) ==
    LET l_out == [i \in 1..Len(l_in) |-> CtcDirect * l_in[i] - CtcCross * r_in[i]]
        r_out == [i \in 1..Len(r_in) |-> CtcDirect * r_in[i] - CtcCross * l_in[i]]
        max_val == MaxAbs(l_out, r_out)
    IN  [l |-> [num |-> l_out, den |-> max_val],
         r |-> [num |-> r_out, den |-> max_val]]

\* A mutant of CtcProcess: max_val is the peak of the left output alone.
CtcProcessLeftPeak(l_in, r_in, den) ==
    LET l_out == [i \in 1..Len(l_in) |-> CtcDirect * l_in[i] - CtcCross * r_in[i]]
        r_out == [i \in 1..Len(r_in) |-> CtcDirect * r_in[i] - CtcCross * l_in[i]]
        max_val == MaxAbs(l_out, l_out)
        out_den == IF max_val > den * CtcDen THEN max_val ELSE den * CtcDen
    IN  [l |-> [num |-> l_out, den |-> out_den],
         r |-> [num |-> r_out, den |-> out_den]]

\* CrosstalkCanceller.process(l_in, r_in) on blocks given over den: the two
\* output blocks, each a numerator block over a denominator.  max_val > 1.0
\* is max_val > den * CtcDen on the numerators, and dividing by max_val
\* makes max_val the denominator.
CtcProcess(l_in, r_in, den) ==
    LET l_out == [i \in 1..Len(l_in) |-> CtcDirect * l_in[i] - CtcCross * r_in[i]]
        r_out == [i \in 1..Len(r_in) |-> CtcDirect * r_in[i] - CtcCross * l_in[i]]
        max_val == MaxAbs(l_out, r_out)
        out_den == IF max_val > den * CtcDen THEN max_val ELSE den * CtcDen
    IN  [l |-> [num |-> l_out, den |-> out_den],
         r |-> [num |-> r_out, den |-> out_den]]

\* -------------------------------------------------------- DSPPipeline

\* The denominator of the attenuation 1 / (dist + 1), and the distances of
\* the model.
AttDen == 4
Dists == {1, 3}

\* `chunk = chunk * attenuation`, attenuation = 1.0 / (dist + 1.0).
Attenuate(chunk, dist) == [i \in 1..Len(chunk) |-> chunk[i] * (AttDen \div (dist + 1))]

VecAdd(a, b) == [i \in 1..Len(a) |-> a[i] + b[i]]

\* process, the loop over sources_data: each source is attenuated by its
\* distance, sent through the Doppler hook and the HRTF of its direction,
\* and added to the mix.
RECURSIVE MixSources(_, _)
MixSources(srcs, n) ==
    IF srcs = <<>>
    THEN [l |-> Zeros(n), r |-> Zeros(n)]
    ELSE LET s == srcs[Len(srcs)]
             sp == SpatializeSource(ApplyDoppler(Attenuate(s.chunk, s.dist)), s.az)
             mixed == MixSources(SubSeq(srcs, 1, Len(srcs) - 1), n)
         IN  [l |-> VecAdd(mixed.l, sp.l), r |-> VecAdd(mixed.r, sp.r)]

\* DSPPipeline.process from the mix on: EQ and reverb of the left block, EQ
\* and reverb of the right block on the same EnvironmentDSP, then CTC.
PostMix(mixed, buf, p) ==
    LET rev_l == ApplyReverb(ApplyEq(mixed.l), buf, p)
        rev_r == ApplyReverb(ApplyEq(mixed.r), rev_l.buf, rev_l.ptr)
        out == CtcProcess(rev_l.out, rev_r.out, AttDen * TapDen * ReverbDen)
    IN  [final_l |-> out.l, final_r |-> out.r,
         buf |-> rev_r.buf, ptr |-> rev_r.ptr, mid_ptr |-> rev_l.ptr]

\* The sources of the model, two of the engine's five.
SourceNames == <<"Forest", "River">>
NumSources == Len(SourceNames)

\* The chunks a source delivers: silence (all a source that failed to load
\* ever delivers) or a unit impulse.
SourceChunks(n) == {Zeros(n), [i \in 1..n |-> IF i = 1 THEN 1 ELSE 0]}

\* The sources_data of one block with the geometry the listener pose gives
\* each source: any of the chunks, any grid azimuth, any distance.
SourcesData(n) ==
    [1..NumSources -> [chunk : SourceChunks(n), az : Azimuths, dist : Dists]]

IsSilentChunk(chunk) == \A i \in 1..Len(chunk) : chunk[i] = 0

\* DSPPipeline.__init__ and EnvironmentDSP.__init__: the reverb buffer is
\* np.zeros(int(sample_rate * 0.5)), at least two blocks long.
InitDsp ==
    /\ InitCtrlSys
    /\ InitNoPure
    /\ InitNoBank
    /\ sources = <<>>
    /\ chunks = <<>>
    /\ ptrBefore = 0
    /\ \E n \in 1..MaxBlockLen, sample_rate \in 1..MaxRate :
          /\ sample_rate \div 2 >= 2 * n
          /\ chunk_size = n
          /\ reverb_buffer = Zeros(sample_rate \div 2)
          /\ bufOwner = [j \in 1..(sample_rate \div 2) |-> "none"]
    /\ env_ptr = 0
    /\ final_l = [num |-> <<>>, den |-> 1]
    /\ final_r = [num |-> <<>>, den |-> 1]
    /\ nBlocks = 0
    /\ readOwners = [L |-> {}, R |-> {}]
    /\ ptrTrace = <<0, 0, 0>>
    /\ allSilent = TRUE

\* DSPPipeline.process on sources_data srcs: the outputs and the reverb state
\* it leaves.
RenderBlock(srcs) ==
      \E r \in {PostMix(MixSources(srcs, chunk_size), reverb_buffer, env_ptr)} :
        LET B == Len(reverb_buffer)
            win_l == {j \in 1..B : InWindow(j, env_ptr, chunk_size, B)}
            win_r == {j \in 1..B : InWindow(j, r.mid_ptr, chunk_size, B)}
            owner_l == [j \in 1..B |-> IF j \in win_l THEN "L" ELSE bufOwner[j]]
        IN  /\ reverb_buffer' = r.buf
            /\ env_ptr' = r.ptr
            /\ final_l' = r.final_l
            /\ final_r' = r.final_r
            /\ bufOwner' = [j \in 1..B |-> IF j \in win_r THEN "R" ELSE owner_l[j]]
            /\ readOwners' = [L |-> {bufOwner[j] : j \in win_l},
                              R |-> {owner_l[j] : j \in win_r}]
            /\ ptrTrace' = <<env_ptr, r.mid_ptr, r.ptr>>
            /\ allSilent' = (allSilent /\ \A k \in 1..NumSources : IsSilentChunk(srcs[k].chunk))
            /\ nBlocks' = nBlocks + 1

\* One call of DSPPipeline.process(sources_data, listener_pos, listener_quat).
ProcessBlock ==
    /\ nBlocks < MaxBlocks
    /\ \E srcs \in SourcesData(chunk_size) : RenderBlock(srcs)
    /\ UNCHANGED <<ctrlVars, sysVars, srcVars, pureVars, bankVars>>

NextDsp == ProcessBlock

SpecDSP == InitDsp /\ [][NextDsp]_vars

\* -------------------------------------------------------- AudioEngine

\* The positions of the sources of _init_sources, in tenths of a metre.
SourcePos == <<(<<40, 40, 30>>), (<<30, -40, 2>>)>>

\* sample_rate of the engine of the model; switch_threshold = sample_rate * 5.
BankRate == 1
SwitchThreshold == BankRate * 5

\* AudioEngine.get_active_source_chunk(): the chunk of the active source
\* alone, and the switch to the next source after switch_threshold samples.
GetActiveSourceChunk(srcs, n, idx, played) ==
    LET r == GetNextChunk(srcs[idx + 1], n)
        switch == played + n >= SwitchThreshold
    IN  [sources |-> [srcs EXCEPT ![idx + 1] = r.src],
         active_idx |-> IF switch THEN (idx + 1) % Len(srcs) ELSE idx,
         samples_played |-> IF switch THEN 0 ELSE played + n,
         out |-> <<[name |-> SourceNames[idx + 1], chunk |-> r.chunk,
                    pos |-> SourcePos[idx + 1]]>>]

\* A mutant of GetSourceChunks: the first definition of get_source_chunks
\* (audio_engine.py:86-88), which returns the active source only.
GetSourceChunksActiveOnly(srcs, n, idx, played) ==
    GetActiveSourceChunk(srcs, n, idx, played)

\* AudioEngine.get_source_chunks() as the class ends up defining it (the
\* second definition replaces the first): a dict comprehension over
\* self.sources, each source read once, entries in the order of the list.
GetSourceChunks(srcs, n, idx, played) ==
    [sources |-> [i \in 1..Len(srcs) |-> GetNextChunk(srcs[i], n).src],
     active_idx |-> idx,
     samples_played |-> played,
     out |-> [i \in 1..Len(srcs) |->
                [name |-> SourceNames[i], chunk |-> GetNextChunk(srcs[i], n).chunk,
                 pos |-> SourcePos[i]]]]

\* The buffers of the bank's sources: one of each length, its samples
\* telling their place in the buffer.
BankBuffers == {[i \in 1..len |-> i % 3] : len \in 1..MaxSrcLen}

\* An engine of NumSources sources with any of these buffers.
InitBank ==
    /\ InitCtrlSys
    /\ InitNoDsp
    /\ InitNoPure
    /\ chunk_size \in 1..MaxChunk
    /\ \E data \in [1..NumSources -> BankBuffers] :
          sources = [i \in 1..NumSources |-> NewSource(data[i])]
    /\ chunks = <<>>
    /\ ptrBefore = 0
    /\ active_idx = 0
    /\ samples_played = 0
    /\ collected = <<>>
    /\ srcBefore = <<>>
    /\ prevNames = <<>>
    /\ nCollects = 0

\* audio.get_source_chunks(): the dict it returns and the engine it leaves.
CollectChunks ==
    /\ \E r \in {GetSourceChunks(sources, chunk_size, active_idx, samples_played)} :
          /\ sources' = r.sources
          /\ active_idx' = r.active_idx
          /\ samples_played' = r.samples_played
          /\ collected' = r.out
    /\ srcBefore' = sources
    /\ prevNames' = [i \in 1..Len(collected) |-> collected[i].name]
    /\ nCollects' = nCollects + 1

\* One call of audio.get_source_chunks().
Collect ==
    /\ nCollects < MaxCollects
    /\ CollectChunks
    /\ UNCHANGED <<chunk_size, chunks, ptrBefore, ctrlVars, sysVars, dspVars, pureVars>>

NextBank == Collect

SpecBank == InitBank /\ [][NextBank]_vars

\* --------------------------------------- MudumalaiSystem, audio task

\* sample_rate and chunk_size of the system of the model (96000 and 1024 in
\* main.py): blocks of one sample, a reverb buffer of four.
SystemRate == 8
SystemChunk == 1

\* DSPPipeline.process, steps 1 and 2: the direction and the distance the
\* listener pose gives source i.  A pose of the model is the number of the
\* fusion update it came from: orientation quat turns the listener by quat
\* quarter turns, position pos is near every other source.
Geometry(i, pos, quat) ==
    [az |-> 90 * ((i + quat) % 4), dist |-> IF (i + pos) % 2 = 0 THEN 1 ELSE 3]

\* _audio_callback, `sources_data = self.audio.get_source_chunks()`.
AudioCollect ==
    /\ streamActive
    /\ audioPc = "idle"
    /\ nRenders < MaxRenders
    /\ audioPc' = "collected"
    /\ CollectChunks
    /\ UNCHANGED <<ctrlVars, fusionSeq, current_pos, current_quat, mainPc,
                   streamActive, argPos, rendered, nRenders, stopOrder>>
    /\ UNCHANGED <<chunk_size, chunks, ptrBefore, dspVars, pureVars>>

\* _audio_callback, the argument `self.current_pos` is evaluated.
AudioReadPos ==
    /\ audioPc = "collected"
    /\ argPos' = current_pos
    /\ audioPc' = "have_pos"
    /\ UNCHANGED <<ctrlVars, fusionSeq, current_pos, current_quat, mainPc,
                   streamActive, rendered, nRenders, stopOrder>>
    /\ UNCHANGED audioVars

\* _audio_callback, the argument `self.current_quat` is evaluated and
\* pipeline.process renders the block with the two arguments.
AudioProcess ==
    /\ audioPc = "have_pos"
    /\ rendered' = [pos |-> argPos, quat |-> current_quat]
    /\ nRenders' = nRenders + 1
    /\ audioPc' = "idle"
    /\ RenderBlock([i \in 1..Len(collected) |->
                      [chunk |-> collected[i].chunk,
                       az |-> Geometry(i, argPos, current_quat).az,
                       dist |-> Geometry(i, argPos, current_quat).dist]])
    /\ UNCHANGED <<ctrlVars, fusionSeq, current_pos, current_quat, mainPc,
                   streamActive, argPos, stopOrder>>
    /\ UNCHANGED <<srcVars, pureVars, bankVars>>

\* ------------------------------------------- MudumalaiSystem, whole

\* MudumalaiSystem.__init__: the controller, the fusion, the audio engine
\* with its sources and the DSP pipeline with its zeroed reverb buffer.
InitSystem ==
    /\ InitCtrlSys
    /\ InitNoPure
    /\ chunk_size = SystemChunk
    /\ sources = [i \in 1..NumSources |-> NewSource([k \in 1..(i + 2) |-> k % 3])]
    /\ chunks = <<>>
    /\ ptrBefore = 0
    /\ active_idx = 0
    /\ samples_played = 0
    /\ collected = <<>>
    /\ srcBefore = <<>>
    /\ prevNames = <<>>
    /\ nCollects = 0
    /\ reverb_buffer = Zeros(SystemRate \div 2)
    /\ bufOwner = [j \in 1..(SystemRate \div 2) |-> "none"]
    /\ env_ptr = 0
    /\ final_l = [num |-> <<>>, den |-> 1]
    /\ final_r = [num |-> <<>>, den |-> 1]
    /\ nBlocks = 0
    /\ readOwners = [L |-> {}, R |-> {}]
    /\ ptrTrace = <<0, 0, 0>>
    /\ allSilent = TRUE

Next ==
    \/ MainStartController
    \/ MainStartStream
    \/ MainStopStream
    \/ MainStopController
    \/ TimerStep
    \/ AudioCollect
    \/ AudioReadPos
    \/ AudioProcess

Spec == InitSystem /\ [][Next]_vars

\* ------------------------------------------- the HRTF lookup alone

\* Any requested direction, azimuths below 0 and above 360 included.
InitHrtf ==
    /\ InitCtrlSys
    /\ InitNoSources
    /\ InitNoDsp
    /\ InitNoBank
    /\ hrtf_req \in [az : (-MaxAzUnits)..MaxAzUnits, el : (-MaxElUnits)..MaxElUnits]
    /\ hrtf_hit = <<>>
    /\ ctc_in = [l |-> <<>>, r |-> <<>>]
    /\ ctc_out = <<>>

\* One call of get_nearest_hrtf(azimuth, elevation).
HrtfLookup ==
    /\ hrtf_hit = <<>>
    /\ hrtf_hit' = <<GetNearestHrtf(hrtf_req.az, hrtf_req.el)>>
    /\ UNCHANGED <<ctrlVars, sysVars, srcVars, dspVars, bankVars, hrtf_req, ctc_in, ctc_out>>

NextHrtf == HrtfLookup

SpecHrtf == InitHrtf /\ [][NextHrtf]_vars

\* ---------------------------------- the crosstalk canceller alone

\* The denominator of the samples of a crosstalk call made alone.
CtcInDen == 2

\* Any two input blocks of one length, samples from -MaxCtcAmp / CtcInDen
\* to MaxCtcAmp / CtcInDen (full scale is 1).
InitCtc ==
    /\ InitCtrlSys
    /\ InitNoSources
    /\ InitNoDsp
    /\ InitNoBank
    /\ hrtf_req = [az |-> 0, el |-> 0]
    /\ hrtf_hit = <<>>
    /\ \E n \in 1..MaxCtcLen :
          ctc_in \in [l : [1..n -> (-MaxCtcAmp)..MaxCtcAmp],
                      r : [1..n -> (-MaxCtcAmp)..MaxCtcAmp]]
    /\ ctc_out = <<>>

\* process(l, r) and, on the same canceller, process(r, l).
CtcCall ==
    /\ ctc_out = <<>>
    /\ ctc_out' = <<CtcProcess(ctc_in.l, ctc_in.r, CtcInDen),
                   CtcProcess(ctc_in.r, ctc_in.l, CtcInDen)>>
    /\ UNCHANGED <<ctrlVars, sysVars, srcVars, dspVars, bankVars, hrtf_req, hrtf_hit, ctc_in>>

NextCtc == CtcCall

SpecCtc == InitCtc /\ [][NextCtc]_vars

\* ----------------------------------------------------------- claims

\* C1: every block is rendered with a position and an orientation that one
\* fusion update produced together (or with the initial pair).
C1_TornFreePose == rendered.pos = rendered.quat

\* C2: on shutdown the control timer is stopped first and the audio stream
\* afterwards; the stream is never stopped before the timer.
C2_TimerStopsFirst ==
    \/ stopOrder = <<>>
    \/ stopOrder = <<"timer">>
    \/ stopOrder = <<"timer", "stream">>

\* C3: once stop() has returned (and start() was not called again), the
\* registered timer callback is not invoked any more.
C3_NoCallbackAfterStop == cbAfterStop = FALSE

\* C4: start() right after start(), and stop() right after stop(), change
\* nothing: the second call leaves the controller as the first left it.
C4_StartStopIdempotent ==
    [][/\ (lastCall = "start" /\ lastCall' = "start" /\ nCalls' = nCalls + 1)
          => UNCHANGED <<running, timer_callback, threads>>
       /\ (lastCall = "stop" /\ lastCall' = "stop" /\ nCalls' = nCalls + 1)
          => UNCHANGED <<running, timer_callback, threads>>]_vars

\* The source of SpecSource, its length and the ceiling of length / chunk.
TheSrc == sources[1]
SrcLen == Len(TheSrc.audio_data)
PassCalls == (SrcLen + chunk_size - 1) \div chunk_size

\* C5: a call of next_chunk(n) at cursor c returns samples[c : c+n] and moves
\* the cursor to c + n when c + n <= N, and otherwise returns the tail
\* samples[c : N] padded with zeros and moves the cursor to 0.
C5_NextChunkContract ==
    chunks # <<>> =>
        LET c == ptrBefore
            n == chunk_size
            got == chunks[Len(chunks)]
        IN  IF c + n <= SrcLen
            THEN /\ got = SubSeq(TheSrc.audio_data, c + 1, c + n)
                 /\ TheSrc.ptr = c + n
            ELSE /\ got = SubSeq(TheSrc.audio_data, c + 1, SrcLen) \o Zeros(n - (SrcLen - c))
                 /\ TheSrc.ptr = 0

\* C6: the chunk of the call that follows the first ceil(N_src / N_block)
\* calls is the chunk of the first call; a source of three blocks read four
\* times gives its three thirds and then the first third again.
C6_LoopRestart ==
    /\ Len(chunks) > PassCalls => chunks[PassCalls + 1] = chunks[1]
    /\ (SrcLen = 3 * chunk_size /\ Len(chunks) >= 4) =>
          /\ \A k \in 1..3 :
                chunks[k] = SubSeq(TheSrc.audio_data, (k - 1) * chunk_size + 1, k * chunk_size)
          /\ chunks[4] = chunks[1]

\* C7: after any sequence of next_chunk calls the cursor of a source of
\* N >= 1 samples is in [0, N).
C7_CursorInRange ==
    \A i \in 1..Len(sources) :
        /\ 0 <= sources[i].ptr
        /\ sources[i].ptr < Len(sources[i].audio_data)

\* C7's case: two calls have moved the cursor into the buffer.
C7_Witness == Len(chunks) >= 2 /\ TheSrc.ptr > 0

\* C8: the reverb of each channel reads only samples stored from that
\* channel's earlier input, and the write cursor of a channel advances by
\* exactly one block per rendered block.
C8_ReverbPerChannel ==
    nBlocks > 0 =>
        /\ "R" \notin readOwners.L
        /\ "L" \notin readOwners.R
        /\ ptrTrace[3] = (ptrTrace[1] + chunk_size) % (Len(reverb_buffer) - chunk_size)

\* C9: with a buffer of B >= 2N samples, the write cursor is in [0, B - N)
\* after every apply_reverb call, so the next window [p, p + N) ends within
\* the buffer.
C9_ReverbCursorInRange ==
    \A k \in 1..3 :
        /\ 0 <= ptrTrace[k]
        /\ ptrTrace[k] < Len(reverb_buffer) - chunk_size
        /\ ptrTrace[k] + chunk_size <= Len(reverb_buffer)

\* C9's case: a block was rendered from a cursor that is no multiple of the
\* block length, and the cursor wrapped within it.
C9_Witness ==
    /\ nBlocks >= 2
    /\ ptrTrace[1] % chunk_size # 0
    /\ ptrTrace[2] < ptrTrace[1]

IsZeroBlock(out) == out.den > 0 /\ \A i \in 1..Len(out.num) : out.num[i] = 0

\* C10: from the initial reverb state, as long as every source chunk of
\* every block is all zeros, both output channels are all zeros, whatever
\* the directions and distances of the sources.
C10_SilencePropagation ==
    (nBlocks > 0 /\ allSilent) =>
        /\ Len(final_l.num) = chunk_size /\ IsZeroBlock(final_l)
        /\ Len(final_r.num) = chunk_size /\ IsZeroBlock(final_r)

\* C10's case: two blocks of silent sources have been rendered.
C10_Witness == nBlocks >= 2 /\ allSilent /\ IsZeroBlock(final_l)

\* The requested direction of the lookup, in units, and the selected grid
\* direction in the same units.
ReqAz == hrtf_req.az % UnitsOf(360)
HitAz == UnitsOf(hrtf_hit[1].target_az)
HitEl == IF hrtf_hit[1].target_el >= 0 THEN UnitsOf(hrtf_hit[1].target_el)
         ELSE -UnitsOf(-hrtf_hit[1].target_el)
AzOff == Min(Abs(HitAz - ReqAz), UnitsOf(360) - Abs(HitAz - ReqAz))

\* C11: a lookup with any azimuth and an elevation in [-90, 90] selects a
\* grid direction within 7.5 degrees (half a grid step) of the requested
\* one on both axes, the azimuth compared modulo 360.
C11_NearestWithinHalfStep ==
    (hrtf_hit # <<>> /\ Abs(hrtf_req.el) <= UnitsOf(90)) =>
        /\ 2 * AzOff <= StepUnits
        /\ 2 * Abs(HitEl - hrtf_req.el) <= StepUnits

\* C12: the filter pair selected for a source at (-1, 0, 0) heard from the
\* origin with identity orientation gives the left channel the strictly
\* greater peak; for every selected grid azimuth in (180, 360) the left peak
\* is strictly greater than the right, and in (0, 180) the right is strictly
\* greater than the left.
C12_IldFavorsNearEar ==
    hrtf_hit # <<>> =>
        LET az == hrtf_hit[1].target_az
            peaks == FilterPeaks(az)
        IN  /\ (hrtf_req.az = -UnitsOf(-SourceAzimuth(-1, 0)) /\ hrtf_req.el = 0)
                   => peaks.l > peaks.r
            /\ (180 < az /\ az < 360) => peaks.l > peaks.r
            /\ (0 < az /\ az < 180) => peaks.r > peaks.l

\* C13: if process(L, R) returns (a, b) then process(R, L) returns (b, a)
\* exactly, whether or not the peak normalisation is triggered.
C13_CtcSymmetry ==
    ctc_out # <<>> =>
        /\ ctc_out[2].l = ctc_out[1].r
        /\ ctc_out[2].r = ctc_out[1].l

\* C13's case: a call with different blocks whose peak was normalised.
C13_Witness ==
    /\ ctc_out # <<>>
    /\ ctc_in.l # ctc_in.r
    /\ ctc_out[1].l.den > CtcInDen * CtcDen
    /\ ctc_out[1].l.num # ctc_out[1].r.num

\* C13's other case: a call with different blocks below the threshold.
C13_WitnessNoNorm ==
    /\ ctc_out # <<>>
    /\ ctc_in.l # ctc_in.r
    /\ ctc_out[1].l.den = CtcInDen * CtcDen
    /\ ctc_out[1].l.num # ctc_out[1].r.num

C15_LookupTotal ==
    hrtf_hit # <<>> =>
        /\ 0 <= hrtf_hit[1].az_idx /\ hrtf_hit[1].az_idx < NumAzimuth
        /\ 0 <= hrtf_hit[1].el_idx /\ hrtf_hit[1].el_idx < NumElevation
        /\ hrtf_hit[1].found

\* C15's case: a negative azimuth that rounds up to a full turn, with an
\* elevation above 90 degrees.
C15_Witness ==
    /\ hrtf_hit # <<>>
    /\ hrtf_req.az < 0
    /\ 2 * (UnitsOf(360) - ReqAz) < StepUnits
    /\ hrtf_req.el > UnitsOf(90)
    /\ hrtf_hit[1].az_idx = 0
    /\ hrtf_hit[1].el_idx = NumElevation - 1

\* A step of the control task (a timer thread moved) and a step of the
\* audio task (the audio callback moved).
ControlTaskStep == Len(threads') = Len(threads) /\ threads' # threads
AudioTaskStep == audioPc' # audioPc

\* C16: a step of the timer callback leaves the source cursors, the reverb
\* buffer and the reverb cursor unchanged; a step of the audio callback
\* leaves the shared pose and the fusion state unchanged; the pose changes
\* only in steps of the control task, and the cursors and the reverb state
\* only in steps of the audio task.
C16_SingleWriter ==
    [][/\ ControlTaskStep => UNCHANGED <<sources, reverb_buffer, env_ptr>>
       /\ AudioTaskStep => UNCHANGED <<current_pos, current_quat, fusionSeq>>
       /\ <<current_pos, current_quat>>' # <<current_pos, current_quat>> => ControlTaskStep
       /\ <<sources, reverb_buffer, env_ptr>>' # <<sources, reverb_buffer, env_ptr>>
             => AudioTaskStep]_vars

\* C16's case: both tasks have written their state: the pose comes from a
\* fusion update, source cursors and the reverb state have moved.
C16_Witness ==
    /\ current_pos > 0 /\ current_quat > 0
    /\ nBlocks >= 2
    /\ \E i \in 1..Len(sources) : sources[i].ptr > 0
    /\ env_ptr > 0
    /\ \E j \in 1..Len(reverb_buffer) : reverb_buffer[j] # 0

====
